---- MODULE Spec2Model ----
(***************************************************************************)
(* MeshDetector (src/unnamed/part_000): the synchronisation of the WebXR   *)
(* detected-mesh feed with the DetectedMesh objects of the scene.          *)
(*                                                                         *)
(* Lengths are in millimetres (1 m = 1000), so that the distances the code *)
(* compares (3.0 m, 0.001 m) are integers.  The code's tests              *)
(*     sqrt(d2) > k        and      dot / sqrt(d2) < 1/4                   *)
(* are evaluated exactly, as  d2 > k*k  and  dot <= 0 \/ 16*dot*dot < d2.  *)
(* Times are in milliseconds.                                              *)
(***************************************************************************)
EXTENDS Integers, Sequences, FiniteSets

(***************************************************************************)
(* Program constants.                                                      *)
(***************************************************************************)
kMaxViewDistance == 3000
kFOVCosThresholdInv == 4
kMinDirectionDistance == 1
MAX_MESHES_PER_FRAME == 100000
MESH_UPDATE_INTERVAL_MS == 1000

(***************************************************************************)
(* Bounds of the model.                                                    *)
(***************************************************************************)
ClockStep == 500
MaxClockSteps == 6
MaxDetectedMeshes == 3
MaxRegistrations == 2

\* The XRMesh handles the platform may report.
XRMeshes == {"m1", "m2"}

(***************************************************************************)
(* Values of the platform API.                                             *)
(***************************************************************************)
Undefined == <<"undefined">>

Vec(x, y, z) == <<x, y, z>>

Origin == Vec(0, 0, 0)

IdentityQuaternion == "qIdentity"

\* frame.getPose(...) returning null / undefined.
NoPose == [ok |-> FALSE, position |-> Origin, orientation |-> IdentityQuaternion]

Pose(p, q) == [ok |-> TRUE, position |-> p, orientation |-> q]

\* frame.getViewerPose(...) returning null.
NoViewerPose == [ok |-> FALSE, views |-> <<>>]

\* A view's transform matrix: its translation column and its Z axis column.
View(p, z) == [position |-> p, zAxis |-> z]

ViewerPose(views) == [ok |-> TRUE, views |-> views]

AllNoPose == [m \in XRMeshes |-> NoPose]

\* XRMesh.semanticLabel of the handles: one labelled, one without a label.
SemanticLabelOf == [m \in XRMeshes |-> IF m = "m1" THEN "floor" ELSE "undefined"]

\* updateMeshes called without a frame.
NoFrame ==
  [defined |-> FALSE, detectedMeshes |-> Undefined, pose |-> AllNoPose,
   vertices |-> [m \in XRMeshes |-> "v1"], semanticLabel |-> SemanticLabelOf,
   viewerPose |-> NoViewerPose]

SEMANTIC_LABELS == <<"floor", "ceiling", "wall">>

SEMANTIC_COLORS == <<"0x00ff00", "0xffff00", "0x0000ff">>

Null == [null |-> TRUE]

defaultMaterial == [color |-> "none", wireframe |-> FALSE, visible |-> FALSE]

DebugMaterial(color) == [color |-> color, wireframe |-> TRUE, visible |-> TRUE]

\* The sequences without repetition over a set: the iteration orders of a Set.
RECURSIVE Orders(_)
Orders(S) ==
  IF S = {} THEN {<<>>}
  ELSE UNION {{<<x>> \o t : t \in Orders(S \ {x})} : x \in S}

Range(s) == {s[i] : i \in 1..Len(s)}

VARIABLES
  xrMeshToThreeMesh,   \* Map<XRMesh, DetectedMesh>: handle -> object identity
  threeMeshToXrMesh,   \* Map<DetectedMesh, XRMesh>
  children,            \* the DetectedMesh objects attached to this Script (Object3D.children)
  objs,                \* every DetectedMesh constructed so far; its index is its identity
  debugMaterials,      \* Map<string, Material>
  fallbackDebugMaterial,
  physics,             \* this.physics is set
  lastMeshUpdateTime,
  maxMeshesPerFrame,   \* this.MAX_MESHES_PER_FRAME
  now,                 \* performance.now()
  call                 \* the last call made on the MeshDetector, with its arguments

\* The fields of a HandsInteraction (templates/2_hands).
VARIABLES
  leftHandTouching,
  rightHandTouching,
  isGrabbing,
  handToObject,        \* this._handToObject: null or a Matrix4
  target,              \* this.target: its position and its material
  activeGestures,      \* Map<hand, name> as its entries in insertion order
  gestureStarts,       \* history: the entries of activeGestures in the order of their gesturestart
  event                \* history: the last event delivered to the HandsInteraction

detectorVars == <<xrMeshToThreeMesh, threeMeshToXrMesh, children, objs, debugMaterials,
                  fallbackDebugMaterial, physics, lastMeshUpdateTime, maxMeshesPerFrame,
                  now, call>>

handsVars == <<leftHandTouching, rightHandTouching, isGrabbing, handToObject, target,
               activeGestures, gestureStarts, event>>

\* The fields of a BallPit (demos/ballpit), and the clock it reads.
VARIABLES
  lastBallCreatedTimeForController,   \* Map<controller, time>
  performanceNow,      \* performance.now() as BallPit reads it, in thirds of a millisecond
  lastSpawnAt,         \* history: the time of each controller's last spawnBallAt
  pitCall              \* history: the last call made on the BallPit and the balls it spawned

ballPitVars == <<lastBallCreatedTimeForController, performanceNow, lastSpawnAt, pitCall>>

vars == <<detectorVars, handsVars, ballPitVars>>

\* What updateMeshes reads and writes on the MeshDetector and its meshes.
state == [x2t |-> xrMeshToThreeMesh, t2x |-> threeMeshToXrMesh,
          children |-> children, objs |-> objs]

(***************************************************************************)
(* Map and DetectedMesh primitives.                                        *)
(***************************************************************************)
EmptyMap == [k \in {} |-> k]

MapSet(map, k, v) == [x \in (DOMAIN map) \cup {k} |-> IF x = k THEN v ELSE map[x]]

MapDelete(map, k) == [x \in (DOMAIN map) \ {k} |-> map[x]]

MapValues(map) == {map[k] : k \in DOMAIN map}

\* new DetectedMesh(xrMesh, material): a THREE.Mesh at the origin whose
\* geometry is built from the XRMesh's vertices.
NewDetectedMesh(xrMesh, vertices, material) ==
  [xrMesh |-> xrMesh, vertices |-> vertices, material |-> material, position |-> Origin,
   quaternion |-> IdentityQuaternion, disposed |-> 0, rapier |-> 0]

\* DetectedMesh.initRapierPhysics(RAPIER, blendedWorld)
initRapierPhysics(mesh) == [mesh EXCEPT !.rapier = @ + 1]

\* DetectedMesh.dispose()
dispose(mesh) == [mesh EXCEPT !.disposed = @ + 1]

\* DetectedMesh.updateVertices(xrMesh)
updateVertices(mesh, vertices) == [mesh EXCEPT !.vertices = vertices]

(***************************************************************************)
(* Camera culling.                                                         *)
(***************************************************************************)
Neg(v) == Vec(0 - v[1], 0 - v[2], 0 - v[3])

Dot(a, b) == a[1] * b[1] + a[2] * b[2] + a[3] * b[3]

\* frame.getPose(xrMesh.meshSpace, referenceSpace)
getPose(frame, xrMesh) == frame.pose[xrMesh]

\* getCameraInfo taking the view's +Z axis for the forward direction.
getCameraInfoPlusZ(frame) ==
  LET viewerPose == frame.viewerPose
  IN IF viewerPose.ok /\ Len(viewerPose.views) > 0
     THEN [position |-> viewerPose.views[1].position,
           forward |-> viewerPose.views[1].zAxis]
     ELSE [position |-> Origin, forward |-> Vec(0, 0, -1)]

getCameraInfo(frame) ==
  LET viewerPose == frame.viewerPose
  IN IF viewerPose.ok /\ Len(viewerPose.views) > 0
     THEN [position |-> viewerPose.views[1].position,
           forward |-> Neg(viewerPose.views[1].zAxis)]
     ELSE [position |-> Origin, forward |-> Vec(0, 0, -1)]

\* shouldShowMeshInView without the test of the view distance.
shouldShowMeshInViewAnyDistance(mesh, cameraPosition, cameraForward, frame) ==
  LET meshPose == getPose(frame, mesh)
      dx == meshPose.position[1] - cameraPosition[1]
      dy == meshPose.position[2] - cameraPosition[2]
      dz == meshPose.position[3] - cameraPosition[3]
      distance2 == dx * dx + dy * dy + dz * dz
      dotForward == Dot(Vec(dx, dy, dz), cameraForward)
  IN IF ~meshPose.ok THEN TRUE
     ELSE IF distance2 > kMinDirectionDistance * kMinDirectionDistance
             /\ (dotForward <= 0
                 \/ kFOVCosThresholdInv * kFOVCosThresholdInv * dotForward * dotForward < distance2)
          THEN FALSE
     ELSE TRUE

\* shouldShowMeshInView hiding a mesh that has no pose.
shouldShowMeshInViewFailClosed(mesh, cameraPosition, cameraForward, frame) ==
  LET meshPose == getPose(frame, mesh)
      dx == meshPose.position[1] - cameraPosition[1]
      dy == meshPose.position[2] - cameraPosition[2]
      dz == meshPose.position[3] - cameraPosition[3]
      distance2 == dx * dx + dy * dy + dz * dz
      dotForward == Dot(Vec(dx, dy, dz), cameraForward)
  IN IF ~meshPose.ok THEN FALSE
     ELSE IF distance2 > kMaxViewDistance * kMaxViewDistance THEN FALSE
     ELSE IF distance2 > kMinDirectionDistance * kMinDirectionDistance
             /\ (dotForward <= 0
                 \/ kFOVCosThresholdInv * kFOVCosThresholdInv * dotForward * dotForward < distance2)
          THEN FALSE
     ELSE TRUE

shouldShowMeshInView(mesh, cameraPosition, cameraForward, frame) ==
  LET meshPose == getPose(frame, mesh)
      dx == meshPose.position[1] - cameraPosition[1]
      dy == meshPose.position[2] - cameraPosition[2]
      dz == meshPose.position[3] - cameraPosition[3]
      distance2 == dx * dx + dy * dy + dz * dz
      dotForward == Dot(Vec(dx, dy, dz), cameraForward)
  IN IF ~meshPose.ok THEN TRUE
     ELSE IF distance2 > kMaxViewDistance * kMaxViewDistance THEN FALSE
     ELSE IF distance2 > kMinDirectionDistance * kMinDirectionDistance
             /\ (dotForward <= 0
                 \/ kFOVCosThresholdInv * kFOVCosThresholdInv * dotForward * dotForward < distance2)
          THEN FALSE
     ELSE TRUE

(***************************************************************************)
(* updateMeshes, on a record st of the maps, the children and the meshes.  *)
(***************************************************************************)
\* updateMeshPose resetting the transform of a mesh that has no pose.
updateMeshPoseOrReset(frame, xrMesh, mesh) ==
  LET pose == getPose(frame, xrMesh)
  IN IF pose.ok
     THEN [mesh EXCEPT !.position = pose.position, !.quaternion = pose.orientation]
     ELSE [mesh EXCEPT !.position = Origin, !.quaternion = IdentityQuaternion]

updateMeshPose(frame, xrMesh, mesh) ==
  LET pose == getPose(frame, xrMesh)
  IN IF pose.ok
     THEN [mesh EXCEPT !.position = pose.position, !.quaternion = pose.orientation]
     ELSE mesh

\* Lines 162-165 with the fallback tried before the material of the label.
createMeshFallbackFirst(frame, xrMesh) ==
  LET semanticLabel == frame.semanticLabel[xrMesh]
      material ==
        IF fallbackDebugMaterial # Null THEN fallbackDebugMaterial
        ELSE IF semanticLabel \notin {"undefined", ""} /\ semanticLabel \in DOMAIN debugMaterials
        THEN debugMaterials[semanticLabel]
        ELSE defaultMaterial
  IN updateMeshPose(frame, xrMesh,
                    NewDetectedMesh(xrMesh, frame.vertices[xrMesh], material))

createMesh(frame, xrMesh) ==
  LET semanticLabel == frame.semanticLabel[xrMesh]
      material ==
        IF semanticLabel \notin {"undefined", ""} /\ semanticLabel \in DOMAIN debugMaterials
        THEN debugMaterials[semanticLabel]
        ELSE IF fallbackDebugMaterial # Null THEN fallbackDebugMaterial
        ELSE defaultMaterial
  IN updateMeshPose(frame, xrMesh,
                    NewDetectedMesh(xrMesh, frame.vertices[xrMesh], material))

\* The teardown of lines 101-104 without line 102: the reverse entry stays.
deleteOldMeshForwardOnly(st, xrMesh, threeMesh) ==
  [x2t |-> MapDelete(st.x2t, xrMesh),
   t2x |-> st.t2x,
   objs |-> [st.objs EXCEPT ![threeMesh] = dispose(@)],
   children |-> st.children \ {threeMesh}]

\* Lines 101-104: the teardown of a mesh that left the feed.
deleteOldMesh(st, xrMesh, threeMesh) ==
  [x2t |-> MapDelete(st.x2t, xrMesh),
   t2x |-> MapDelete(st.t2x, threeMesh),
   objs |-> [st.objs EXCEPT ![threeMesh] = dispose(@)],
   children |-> st.children \ {threeMesh}]

\* The loop of lines 99-106 with the test of line 100 inverted.
RECURSIVE deleteOldMeshesInFeed(_, _, _)
deleteOldMeshesInFeed(st, entries, meshes) ==
  IF entries = {} THEN st
  ELSE LET xrMesh == CHOOSE k \in entries : TRUE
           next == IF xrMesh \in Range(meshes)
                   THEN deleteOldMesh(st, xrMesh, st.x2t[xrMesh])
                   ELSE st
       IN deleteOldMeshesInFeed(next, entries \ {xrMesh}, meshes)

\* Lines 99-106: the loop over the entries of xrMeshToThreeMesh.
RECURSIVE deleteOldMeshes(_, _, _)
deleteOldMeshes(st, entries, meshes) ==
  IF entries = {} THEN st
  ELSE LET xrMesh == CHOOSE k \in entries : TRUE
           next == IF xrMesh \notin Range(meshes)
                   THEN deleteOldMesh(st, xrMesh, st.x2t[xrMesh])
                   ELSE st
       IN deleteOldMeshes(next, entries \ {xrMesh}, meshes)

\* Lines 127-133 left out: a culled mesh is skipped and stays mapped.
removeCulledMeshSkipped(st, xrMesh) == st

\* Lines 127-133 without line 131: the culled mesh is not disposed.
removeCulledMeshUndisposed(st, xrMesh) ==
  IF xrMesh \in DOMAIN st.x2t
  THEN LET threeMesh == st.x2t[xrMesh]
       IN [x2t |-> MapDelete(st.x2t, xrMesh),
           t2x |-> MapDelete(st.t2x, threeMesh),
           objs |-> st.objs,
           children |-> st.children \ {threeMesh}]
  ELSE st

\* Lines 127-133: a mesh that fails the culling test is removed when mapped.
removeCulledMesh(st, xrMesh) ==
  IF xrMesh \in DOMAIN st.x2t
  THEN LET threeMesh == st.x2t[xrMesh]
       IN [x2t |-> MapDelete(st.x2t, xrMesh),
           t2x |-> MapDelete(st.t2x, threeMesh),
           objs |-> [st.objs EXCEPT ![threeMesh] = dispose(@)],
           children |-> st.children \ {threeMesh}]
  ELSE st

\* Lines 142-151 without line 145: the new mesh is not attached.
addNewMeshDetached(st, xrMesh, frame, hasPhysics) ==
  LET created == createMesh(frame, xrMesh)
      threeMesh == Len(st.objs) + 1
  IN [x2t |-> MapSet(st.x2t, xrMesh, threeMesh),
      t2x |-> MapSet(st.t2x, threeMesh, xrMesh),
      objs |-> Append(st.objs, IF hasPhysics THEN initRapierPhysics(created) ELSE created),
      children |-> st.children]

\* Lines 142-151: a new mesh.
addNewMesh(st, xrMesh, frame, hasPhysics) ==
  LET created == createMesh(frame, xrMesh)
      threeMesh == Len(st.objs) + 1
  IN [x2t |-> MapSet(st.x2t, xrMesh, threeMesh),
      t2x |-> MapSet(st.t2x, threeMesh, xrMesh),
      objs |-> Append(st.objs, IF hasPhysics THEN initRapierPhysics(created) ELSE created),
      children |-> st.children \cup {threeMesh}]

\* Lines 154-156 without line 156: the vertices are refreshed, the pose is not.
updateExistingMeshVerticesOnly(st, xrMesh, frame) ==
  LET threeMesh == st.x2t[xrMesh]
  IN [st EXCEPT !.objs[threeMesh] = updateVertices(@, frame.vertices[xrMesh])]

\* Lines 154-156: an existing mesh.
updateExistingMesh(st, xrMesh, frame) ==
  LET threeMesh == st.x2t[xrMesh]
  IN [st EXCEPT !.objs[threeMesh] =
        updateMeshPose(frame, xrMesh, updateVertices(@, frame.vertices[xrMesh]))]

\* The loop of lines 113-158 with processedCount++ moved above the culling
\* test: a culled mesh counts against the limit.
RECURSIVE processMeshesCountingCulled(_, _, _, _, _, _, _)
processMeshesCountingCulled(st, meshes, i, processedCount, camera, frame, hasPhysics) ==
  IF i > Len(meshes) THEN st
  ELSE IF processedCount >= maxMeshesPerFrame THEN st
  ELSE LET xrMesh == meshes[i]
       IN IF ~shouldShowMeshInView(xrMesh, camera.position, camera.forward, frame)
          THEN processMeshesCountingCulled(removeCulledMesh(st, xrMesh), meshes, i + 1,
                                           processedCount + 1, camera, frame, hasPhysics)
          ELSE processMeshesCountingCulled(IF xrMesh \notin DOMAIN st.x2t
                                           THEN addNewMesh(st, xrMesh, frame, hasPhysics)
                                           ELSE updateExistingMesh(st, xrMesh, frame),
                                           meshes, i + 1, processedCount + 1, camera, frame,
                                           hasPhysics)

\* Lines 113-158: the loop over the feed, from its i-th mesh on.
RECURSIVE processMeshes(_, _, _, _, _, _, _)
processMeshes(st, meshes, i, processedCount, camera, frame, hasPhysics) ==
  IF i > Len(meshes) THEN st
  ELSE IF processedCount >= maxMeshesPerFrame THEN st
  ELSE LET xrMesh == meshes[i]
       IN IF ~shouldShowMeshInView(xrMesh, camera.position, camera.forward, frame)
          THEN processMeshes(removeCulledMesh(st, xrMesh), meshes, i + 1,
                             processedCount, camera, frame, hasPhysics)
          ELSE processMeshes(IF xrMesh \notin DOMAIN st.x2t
                             THEN addNewMesh(st, xrMesh, frame, hasPhysics)
                             ELSE updateExistingMesh(st, xrMesh, frame),
                             meshes, i + 1, processedCount + 1, camera, frame, hasPhysics)

\* Lines 95-158: a reconciliation.
reconcile(st, meshes, frame, hasPhysics) ==
  processMeshes(deleteOldMeshes(st, DOMAIN st.x2t, meshes), meshes, 1, 0,
                getCameraInfo(frame), frame, hasPhysics)

\* Line 79 taking a missing feed for an empty one.
detectedMeshesOfOrEmpty(frame) ==
  IF frame.defined /\ frame.detectedMeshes # Undefined THEN frame.detectedMeshes ELSE <<>>

\* Line 79: frame?.detectedMeshes
detectedMeshesOf(frame) == IF frame.defined THEN frame.detectedMeshes ELSE Undefined

\* The throttle of line 86 comparing the time itself with the interval.
throttledSinceStart(time, last) == time < MESH_UPDATE_INTERVAL_MS

\* Line 86: the throttle.
throttled(time, last) == time - last < MESH_UPDATE_INTERVAL_MS

Called(op, frame, referenceSpace, ret) ==
  [op |-> op, frame |-> frame, referenceSpace |-> referenceSpace, ret |-> ret]

(***************************************************************************)
(* HandsInteraction (templates/2_hands).  A Matrix4 is the translation it  *)
(* carries, along one axis and in whole units: the hands and the target    *)
(* are not rotated, and the target's parent is at the origin.              *)
(***************************************************************************)
Translation(x) == [translation |-> x]

\* THREE.Matrix4: copy(a).invert().multiply(b)
InvertMultiply(a, b) == Translation(b.translation - a.translation)

\* THREE.Matrix4: multiplyMatrices(a, b)
multiplyMatrices(a, b) == Translation(a.translation + b.translation)

originalColor == "0xFBBC05"

gesturePalette ==
  [g \in {"pinch", "open-palm", "fist", "thumbs-up", "point", "spread"} |->
     CASE g = "pinch" -> "0xff6f00"
       [] g = "open-palm" -> "0x00acc1"
       [] g = "fist" -> "0x4e342e"
       [] g = "thumbs-up" -> "0x8bc34a"
       [] g = "point" -> "0x673ab7"
       [] g = "spread" -> "0xff4081"]

\* new THREE.MeshPhongMaterial({color}): emissive black, emissiveIntensity 1
\* (intensities are in tenths).
MeshPhongMaterial(color) ==
  [color |-> color, emissive |-> "0x000000", emissiveIntensity |-> 10,
   isMeshPhongMaterial |-> TRUE]

NoEvent == [type |-> "init", handIndex |-> "NONE", hand |-> 0, name |-> ""]

\* Lines 5-49.
HandsInteraction_init ==
  /\ leftHandTouching = FALSE
  /\ rightHandTouching = FALSE
  /\ isGrabbing = FALSE
  /\ handToObject = Null
  /\ target = [position |-> 0, material |-> MeshPhongMaterial(originalColor)]
  /\ activeGestures = <<>>
  /\ gestureStarts = <<>>
  /\ event = NoEvent

(***************************************************************************)
(* BallPit (demos/ballpit).  Times are in thirds of a millisecond, which   *)
(* makes the interval 1000 / kBallsPerSecond a whole number.               *)
(***************************************************************************)
kBallsPerSecond == 30

\* Milliseconds in the unit of performanceNow.
Ms(t) == 3 * t

PitCalled(op, selected, spawned) == [op |-> op, selected |-> selected, spawned |-> spawned]

\* Lines 19-43: the constructor.
BallPit_constructor ==
  /\ lastBallCreatedTimeForController = EmptyMap
  /\ performanceNow = 0
  /\ lastSpawnAt = EmptyMap
  /\ pitCall = PitCalled("constructor", EmptyMap, {})

(***************************************************************************)
(* The operations.                                                         *)
(***************************************************************************)
\* The MeshDetector after construction and init(options).
InitWith(showDebugVisualizations, limit) ==
  /\ debugMaterials =
       IF showDebugVisualizations
       THEN [l \in Range(SEMANTIC_LABELS) |->
               DebugMaterial(SEMANTIC_COLORS[CHOOSE i \in 1..Len(SEMANTIC_LABELS) : SEMANTIC_LABELS[i] = l])]
       ELSE EmptyMap
  /\ fallbackDebugMaterial =
       IF showDebugVisualizations THEN DebugMaterial("0x000000") ELSE Null
  /\ xrMeshToThreeMesh = EmptyMap
  /\ threeMeshToXrMesh = EmptyMap
  /\ children = {}
  /\ objs = <<>>
  /\ physics = FALSE
  /\ lastMeshUpdateTime = 0
  /\ maxMeshesPerFrame = limit
  /\ now = 0
  /\ call = Called("init", NoFrame, FALSE, 0)
  /\ HandsInteraction_init
  /\ BallPit_constructor

\* init({options, renderer}) on the fields as declared.
InitOptions(showDebugVisualizations) ==
  InitWith(showDebugVisualizations, MAX_MESHES_PER_FRAME)

Init == InitOptions(FALSE)

\* Time passes between two calls.
AdvanceClock ==
  /\ UNCHANGED <<handsVars, ballPitVars>>
  /\ now + ClockStep <= ClockStep * MaxClockSteps
  /\ now' = now + ClockStep
  /\ call' = Called("clock", NoFrame, FALSE, 0)
  /\ UNCHANGED <<xrMeshToThreeMesh, threeMeshToXrMesh, children, objs, debugMaterials,
                 fallbackDebugMaterial, physics, lastMeshUpdateTime, maxMeshesPerFrame>>

\* initPhysics without the loop of lines 73-75.
InitPhysicsWithoutBackfill ==
  /\ UNCHANGED <<handsVars, ballPitVars>>
  /\ physics' = TRUE
  /\ call' = Called("initPhysics", NoFrame, FALSE, 0)
  /\ UNCHANGED <<xrMeshToThreeMesh, threeMeshToXrMesh, children, objs, debugMaterials,
                 fallbackDebugMaterial, lastMeshUpdateTime, maxMeshesPerFrame, now>>

InitPhysics ==
  /\ UNCHANGED <<handsVars, ballPitVars>>
  /\ \A k \in DOMAIN xrMeshToThreeMesh : objs[xrMeshToThreeMesh[k]].rapier < MaxRegistrations
  /\ physics' = TRUE
  /\ objs' = [i \in DOMAIN objs |->
                IF i \in MapValues(xrMeshToThreeMesh) THEN initRapierPhysics(objs[i]) ELSE objs[i]]
  /\ call' = Called("initPhysics", NoFrame, FALSE, 0)
  /\ UNCHANGED <<xrMeshToThreeMesh, threeMeshToXrMesh, children, debugMaterials,
                 fallbackDebugMaterial, lastMeshUpdateTime, maxMeshesPerFrame, now>>

UpdateMeshes(frame, referenceSpace) ==
  LET meshes == detectedMeshesOf(frame)
      result == reconcile(state, meshes, frame, physics)
  IN /\ UNCHANGED <<debugMaterials, fallbackDebugMaterial, physics, maxMeshesPerFrame, now>>
     /\ UNCHANGED <<handsVars, ballPitVars>>
     /\ IF meshes = Undefined
        THEN /\ call' = Called("updateMeshes", frame, referenceSpace, 80)
             /\ UNCHANGED <<xrMeshToThreeMesh, threeMeshToXrMesh, children, objs,
                            lastMeshUpdateTime>>
        ELSE IF throttled(now, lastMeshUpdateTime)
        THEN /\ call' = Called("updateMeshes", frame, referenceSpace, 88)
             /\ UNCHANGED <<xrMeshToThreeMesh, threeMeshToXrMesh, children, objs,
                            lastMeshUpdateTime>>
        ELSE /\ lastMeshUpdateTime' = now
             /\ IF ~referenceSpace
                THEN /\ call' = Called("updateMeshes", frame, referenceSpace, 94)
                     /\ UNCHANGED <<xrMeshToThreeMesh, threeMeshToXrMesh, children, objs>>
                ELSE /\ Len(result.objs) <= MaxDetectedMeshes
                     /\ call' = Called("updateMeshes", frame, referenceSpace, 159)
                     /\ xrMeshToThreeMesh' = result.x2t
                     /\ threeMeshToXrMesh' = result.t2x
                     /\ children' = result.children
                     /\ objs' = result.objs

(***************************************************************************)
(* The frames the platform delivers.                                       *)
(***************************************************************************)
QuaternionA == "qA"

QuaternionB == "qB"

\* What a frame reports of one mesh: its pose and its vertices.
Observation(pose, vertices) == [pose |-> pose, vertices |-> vertices]

Unobserved == Observation(NoPose, "v1")

FrameOf(meshes, obs, viewerPose) ==
  [defined |-> TRUE, detectedMeshes |-> meshes,
   pose |-> [m \in XRMeshes |-> obs[m].pose],
   vertices |-> [m \in XRMeshes |-> obs[m].vertices],
   semanticLabel |-> SemanticLabelOf,
   viewerPose |-> viewerPose]

\* A frame without detectedMeshes.
NoMeshesFrame == FrameOf(Undefined, [m \in XRMeshes |-> Unobserved], NoViewerPose)

\* The frames that report one of the feeds, each mesh of the feed with one of
\* the observations.
FramesOver(feeds, observations, viewerPoses) ==
  UNION { { FrameOf(meshes, obs, v) :
              obs \in { o \in [XRMeshes -> observations \cup {Unobserved}] :
                          \A m \in XRMeshes : m \notin Range(meshes) => o[m] = Unobserved },
              v \in viewerPoses } :
          meshes \in feeds }

\* referenceSpaces: whether renderer.xr.getReferenceSpace() returns one.
NextOver(frames, referenceSpaces) ==
  \/ AdvanceClock
  \/ InitPhysics
  \/ \E frame \in frames, referenceSpace \in referenceSpaces :
       UpdateMeshes(frame, referenceSpace)

(***************************************************************************)
(* Spec: two meshes that come and go, seen from the default camera: one    *)
(* pose in view (1 m ahead), one beyond the view distance (5 m ahead).     *)
(***************************************************************************)
NearPose == Pose(Vec(0, 0, -1000), QuaternionA)

FarPose == Pose(Vec(0, 0, -5000), QuaternionB)

Observations ==
  {Observation(NoPose, "v1"), Observation(NearPose, "v1"), Observation(FarPose, "v2")}

Feeds == {<<>>, <<"m1">>, <<"m2">>, <<"m1", "m2">>}

Frames == {NoFrame, NoMeshesFrame} \cup FramesOver(Feeds, Observations, {NoViewerPose})

Next == NextOver(Frames, BOOLEAN)

Spec == Init /\ [][Next]_vars

(***************************************************************************)
(* SpecVis: one mesh at the positions that decide the culling test, seen   *)
(* from several viewer poses.                                              *)
(***************************************************************************)
VisPositions ==
  { Vec(0, 0, -1000), Vec(0, 0, -5000), Vec(3000, 0, 0), Vec(0, 0, 0),
    Vec(0, 0, -3000), Vec(0, 0, -3001), Vec(0, 0, 1), Vec(0, 0, 2),
    Vec(950, 0, -250), Vec(1000, 0, -250) }

VisObservations ==
  {Observation(NoPose, "v1")} \cup {Observation(Pose(p, QuaternionA), "v1") : p \in VisPositions}

\* The positions seen from the viewer poses other than the default one.
VisTurnedObservations ==
  {Observation(NoPose, "v1")}
    \cup {Observation(Pose(p, QuaternionB), "v2") :
            p \in {Vec(0, 0, -1000), Vec(0, 0, -5000), Vec(3000, 0, 0), Vec(0, 0, 1)}}

VisViewerPoses ==
  { ViewerPose(<<>>),
    ViewerPose(<<View(Vec(0, 0, 0), Vec(0, 0, 1))>>),
    ViewerPose(<<View(Vec(0, 0, 0), Vec(-1, 0, 0))>>),
    ViewerPose(<<View(Vec(0, 0, -4000), Vec(0, 0, 1)), View(Vec(0, 0, 0), Vec(0, 0, -1))>>),
    ViewerPose(<<View(Vec(0, 0, -1000), Vec(0, 0, -1))>>) }

VisFrames ==
  FramesOver({<<>>, <<"m1">>}, VisObservations, {NoViewerPose})
    \cup FramesOver({<<"m1">>}, VisTurnedObservations, VisViewerPoses)

NextVis == NextOver(VisFrames, {TRUE})

SpecVis == Init /\ [][NextVis]_vars

(***************************************************************************)
(* Vocabulary of the properties.  A step is a call of updateMeshes exactly *)
(* when call' names it; the call's arguments are then those of call', and  *)
(* the time of the call is now, which the call leaves unchanged.           *)
(***************************************************************************)
IsTick == call'.op = "updateMeshes"

TickFrame == call'.frame

HasFeed == TickFrame.defined /\ TickFrame.detectedMeshes # Undefined

TickFeed == Range(TickFrame.detectedMeshes)

PassesGate == now - lastMeshUpdateTime >= MESH_UPDATE_INTERVAL_MS

\* A tick that passes the throttle gate with a feed and a reference space.
Reconciles == IsTick /\ HasFeed /\ PassesGate /\ call'.referenceSpace

Mapped == DOMAIN xrMeshToThreeMesh

\* The state right after a call of updateMeshes that ran to its end.
Reconciled == call.op = "updateMeshes" /\ call.ret = 159

\* The viewer of a frame: the first view, or the origin looking down -Z.
ViewerPositionOf(frame) ==
  IF frame.viewerPose.ok /\ frame.viewerPose.views # <<>>
  THEN frame.viewerPose.views[1].position
  ELSE Vec(0, 0, 0)

ViewerForwardOf(frame) ==
  IF frame.viewerPose.ok /\ frame.viewerPose.views # <<>>
  THEN LET z == frame.viewerPose.views[1].zAxis IN Vec(-z[1], -z[2], -z[3])
  ELSE Vec(0, 0, -1)

SquaredDistance(m, p) ==
  (m[1] - p[1]) * (m[1] - p[1]) + (m[2] - p[2]) * (m[2] - p[2])
    + (m[3] - p[3]) * (m[3] - p[3])

Along(m, p, f) == (m[1] - p[1]) * f[1] + (m[2] - p[2]) * f[2] + (m[3] - p[3]) * f[3]

\* distance(m, p) <= 3.0
WithinViewDistance(m, p) == SquaredDistance(m, p) <= 3000 * 3000

\* distance(m, p) <= 0.001 or dot((m - p) / distance, f) >= 0.25
InForwardCone(m, p, f) ==
  \/ SquaredDistance(m, p) <= 1
  \/ Along(m, p, f) >= 0 /\ 16 * Along(m, p, f) * Along(m, p, f) >= SquaredDistance(m, p)

VisiblePosition(m, p, f) == WithinViewDistance(m, p) /\ InForwardCone(m, p, f)

\* The visibility of a mesh of the feed in a frame: no pose, or a visible position.
VisibleIn(frame, h) ==
  \/ ~frame.pose[h].ok
  \/ VisiblePosition(frame.pose[h].position, ViewerPositionOf(frame), ViewerForwardOf(frame))

(***************************************************************************)
(* C1.  Bijection invariant: xrMeshToThreeMesh maps h to m if and only if  *)
(* threeMeshToXrMesh maps m to h; neither map has an entry without its     *)
(* inverse entry, and no two handles share one DetectedMesh.               *)
(***************************************************************************)
C1_Bijection ==
  /\ \A h \in DOMAIN xrMeshToThreeMesh :
       /\ xrMeshToThreeMesh[h] \in DOMAIN threeMeshToXrMesh
       /\ threeMeshToXrMesh[xrMeshToThreeMesh[h]] = h
  /\ \A m \in DOMAIN threeMeshToXrMesh :
       /\ threeMeshToXrMesh[m] \in DOMAIN xrMeshToThreeMesh
       /\ xrMeshToThreeMesh[threeMeshToXrMesh[m]] = m
  /\ \A h1, h2 \in DOMAIN xrMeshToThreeMesh :
       xrMeshToThreeMesh[h1] = xrMeshToThreeMesh[h2] => h1 = h2

\* Both handles are mapped after an earlier DetectedMesh was torn down.
C1_Witness ==
  /\ Mapped = XRMeshes
  /\ \E i \in DOMAIN objs : objs[i].disposed > 0
  /\ physics

(***************************************************************************)
(* C2 as stated.  Disappearance cleanup: a mapped mesh absent from the     *)
(* feed's set has, after the next tick at least MESH_UPDATE_INTERVAL_MS    *)
(* after lastMeshUpdateTime, no entry in either map and its DetectedMesh   *)
(* is detached.                                                            *)
(***************************************************************************)
CleanedUp(h) ==
  /\ h \notin DOMAIN xrMeshToThreeMesh'
  /\ xrMeshToThreeMesh[h] \notin DOMAIN threeMeshToXrMesh'
  /\ xrMeshToThreeMesh[h] \notin children'
  /\ objs'[xrMeshToThreeMesh[h]].disposed = 1

C2_CleanupAfterEligibleTick ==
  [][(IsTick /\ HasFeed /\ PassesGate)
       => \A h \in Mapped : h \notin TickFeed => CleanedUp(h)]_vars

(***************************************************************************)
(* C2 amended.  The cleanup happens in the next tick that passes the       *)
(* throttle gate with a feed and a reference space available.              *)
(***************************************************************************)
C2_CleanupAfterReconcilingTick ==
  [][Reconciles => \A h \in Mapped : h \notin TickFeed => CleanedUp(h)]_vars

\* A reconciliation has just torn down a mesh that is not in its feed, and
\* kept another one.
C2_Witness ==
  /\ Reconciled
  /\ \E i \in DOMAIN objs :
       /\ objs[i].disposed = 1
       /\ objs[i].xrMesh \notin Range(call.frame.detectedMeshes)
       /\ i \notin children
       /\ i \notin DOMAIN threeMeshToXrMesh
       /\ objs[i].xrMesh \notin Mapped
  /\ Mapped # {}

(***************************************************************************)
(* C3.  Reconciliation result: after a tick that passes the throttle gate  *)
(* with a feed and a reference space (and fewer feed meshes than the       *)
(* per-tick cap), the mapped handles are exactly the handles of the feed   *)
(* that are visible or have no pose.                                       *)
(***************************************************************************)
C3_ReconciliationResult ==
  [][(Reconciles /\ Len(TickFrame.detectedMeshes) < maxMeshesPerFrame)
       => DOMAIN xrMeshToThreeMesh' = {h \in TickFeed : VisibleIn(TickFrame, h)}]_vars

\* After a reconciliation of a feed of two meshes one mesh is mapped and the
\* other, in the feed but not visible, is unmapped, its DetectedMesh torn down.
C3_Witness ==
  /\ Reconciled
  /\ Len(call.frame.detectedMeshes) = 2
  /\ \E h \in Mapped : objs[xrMeshToThreeMesh[h]].disposed = 0
  /\ \E h \in Range(call.frame.detectedMeshes) :
       /\ ~VisibleIn(call.frame, h)
       /\ h \notin Mapped
       /\ \E i \in DOMAIN objs : objs[i].xrMesh = h /\ objs[i].disposed = 1

C5_TimestampOnlyOnReconciliation ==
  [][/\ lastMeshUpdateTime' # lastMeshUpdateTime => Reconciles
     /\ (IsTick /\ ~call'.referenceSpace) => lastMeshUpdateTime' = lastMeshUpdateTime]_vars

C7_FailOpen ==
  [][Reconciles =>
       \A h \in TickFeed :
         ~TickFrame.pose[h].ok =>
           /\ h \in DOMAIN xrMeshToThreeMesh'
           /\ objs'[xrMeshToThreeMesh'[h]].disposed = 0
           /\ xrMeshToThreeMesh'[h] \in children'
           /\ h \in Mapped => xrMeshToThreeMesh'[h] = xrMeshToThreeMesh[h]
           /\ h \notin Mapped => xrMeshToThreeMesh'[h] = Len(objs) + 1]_vars

\* A reconciliation without a pose, seen by a viewer that faces away from
\* the place the mesh was last seen at, has kept the mesh.
C7_Witness ==
  /\ Reconciled
  /\ call.frame.viewerPose.ok
  /\ call.frame.viewerPose.views # <<>>
  /\ \E h \in Mapped :
       /\ h \in Range(call.frame.detectedMeshes)
       /\ ~call.frame.pose[h].ok
       /\ objs[xrMeshToThreeMesh[h]].position # Origin
       /\ ~VisiblePosition(objs[xrMeshToThreeMesh[h]].position,
                           ViewerPositionOf(call.frame), ViewerForwardOf(call.frame))

(***************************************************************************)
(* C8.  Visibility predicate: in a reconciling tick a mesh with a pose at  *)
(* m, for a viewer at p looking along f (the origin and -Z without a       *)
(* viewer pose), is mapped afterwards iff distance(m, p) <= 3.0 and        *)
(* (distance <= 0.001 or dot((m - p) / distance, f) >= 0.25).  Seen from   *)
(* the origin looking down -Z: (0,0,-1) is visible, (0,0,-5) and (3,0,0)   *)
(* are culled, and a mesh at the viewer's position is visible.             *)
(***************************************************************************)
ScenarioExpectation(m) ==
  CASE m = Vec(0, 0, -1000) -> {TRUE}
    [] m = Vec(0, 0, -5000) -> {FALSE}
    [] m = Vec(3000, 0, 0) -> {FALSE}
    [] m = Vec(0, 0, 0) -> {TRUE}
    [] OTHER -> BOOLEAN

C8_VisibilityPredicate ==
  [][Reconciles =>
       \A h \in TickFeed :
         TickFrame.pose[h].ok =>
           LET m == TickFrame.pose[h].position
               p == ViewerPositionOf(TickFrame)
               f == ViewerForwardOf(TickFrame)
               shown == h \in DOMAIN xrMeshToThreeMesh'
           IN /\ shown <=> VisiblePosition(m, p, f)
              /\ (~TickFrame.viewerPose.ok) => shown \in ScenarioExpectation(m)]_vars

\* A mapped mesh has just been culled at (3,0,0), at the boundary of the
\* view distance and outside the cone of the default camera.
C8_Witness ==
  /\ Reconciled
  /\ ~call.frame.viewerPose.ok
  /\ "m1" \in Range(call.frame.detectedMeshes)
  /\ call.frame.pose["m1"].ok
  /\ call.frame.pose["m1"].position = Vec(3000, 0, 0)
  /\ "m1" \notin Mapped
  /\ \E i \in DOMAIN objs : objs[i].disposed = 1 /\ objs[i].position = Vec(0, 0, 1)

(***************************************************************************)
(* C9.  Physics late binding: once initPhysics has been called, every      *)
(* mapped DetectedMesh has had its physics representation registered,      *)
(* whether it was created before the call or after it.                     *)
(***************************************************************************)
C9_PhysicsLateBinding ==
  physics => \A h \in Mapped : objs[xrMeshToThreeMesh[h]].rapier >= 1

\* initPhysics has just registered, each for the first time, the two meshes
\* that were created and mapped before it was called.
C9_Witness ==
  /\ call.op = "initPhysics"
  /\ physics
  /\ \A h \in Mapped : objs[xrMeshToThreeMesh[h]].rapier = 1
  /\ Mapped = XRMeshes

(***************************************************************************)
(* C10.  Scene membership invariant: the DetectedMeshes attached to the    *)
(* MeshDetector are exactly the values of xrMeshToThreeMesh, in every      *)
(* state; a tick attaches exactly the meshes whose entries it registers    *)
(* and detaches exactly those whose entries it removes.                    *)
(***************************************************************************)
C10_SceneMembership ==
  /\ children = MapValues(xrMeshToThreeMesh)
  /\ children = DOMAIN threeMeshToXrMesh

\* Attached meshes beside a detached, torn down one.
C10_Witness ==
  /\ Reconciled
  /\ children # {}
  /\ \E i \in DOMAIN objs : objs[i].disposed = 1 /\ i \notin children
  /\ Cardinality(children) = 2

(***************************************************************************)
(* C11.  Transform currency: after a reconciling tick every mapped mesh    *)
(* of the feed that has a pose in that tick has the position and the       *)
(* orientation of that pose, whether it was created in the tick or was     *)
(* mapped before; a mesh that was mapped before has the vertices of the    *)
(* tick as well.                                                           *)
(***************************************************************************)
C11_TransformCurrency ==
  [][Reconciles =>
       \A h \in TickFeed \cap DOMAIN xrMeshToThreeMesh' :
         LET mesh == objs'[xrMeshToThreeMesh'[h]]
         IN /\ TickFrame.pose[h].ok =>
                 /\ mesh.position = TickFrame.pose[h].position
                 /\ mesh.quaternion = TickFrame.pose[h].orientation
            /\ mesh.vertices = TickFrame.vertices[h]]_vars

\* A mesh that two initPhysics calls have registered, so one that was mapped
\* before this tick, has the pose and the vertices of this tick's frame,
\* which a viewer pose other than the default one sees.
C11_Witness ==
  /\ Reconciled
  /\ call.frame.viewerPose.ok
  /\ \E h \in Mapped :
       /\ h \in Range(call.frame.detectedMeshes)
       /\ call.frame.pose[h].ok
       /\ objs[xrMeshToThreeMesh[h]].rapier = 2
       /\ objs[xrMeshToThreeMesh[h]].position = call.frame.pose[h].position
       /\ objs[xrMeshToThreeMesh[h]].quaternion = QuaternionB
       /\ objs[xrMeshToThreeMesh[h]].vertices = "v2"

(***************************************************************************)
(* C13.  Released DetectedMeshes stay released: a mesh that leaves the     *)
(* maps, by the removal pass or by culling, is disposed exactly once and   *)
(* detached in that step, and is never again attached or entered in a      *)
(* map; a handle that is mapped again gets a newly constructed mesh.       *)
(***************************************************************************)
Released(i) == objs[i].disposed > 0

C13_ReleasedStayReleased ==
  [][/\ \A i \in DOMAIN objs :
          /\ objs'[i].disposed <= 1
          /\ (i \in MapValues(xrMeshToThreeMesh) /\ i \notin MapValues(xrMeshToThreeMesh'))
               => /\ objs[i].disposed = 0
                  /\ objs'[i].disposed = 1
                  /\ i \notin children'
          /\ Released(i)
               => /\ objs'[i].disposed = objs[i].disposed
                  /\ i \notin children'
                  /\ i \notin DOMAIN threeMeshToXrMesh'
                  /\ i \notin MapValues(xrMeshToThreeMesh')
     /\ \A h \in DOMAIN xrMeshToThreeMesh' :
          (h \notin Mapped \/ xrMeshToThreeMesh'[h] # xrMeshToThreeMesh[h])
            => /\ xrMeshToThreeMesh'[h] \notin DOMAIN objs
               /\ objs'[xrMeshToThreeMesh'[h]].disposed = 0]_vars

\* A handle is mapped to its second DetectedMesh while its first one, and a
\* mesh of the other handle culled in this tick, are disposed and detached.
C13_Witness ==
  /\ Reconciled
  /\ \E h \in Mapped :
       /\ xrMeshToThreeMesh[h] > 1
       /\ \E i \in DOMAIN objs :
            /\ i < xrMeshToThreeMesh[h]
            /\ objs[i].xrMesh = h
            /\ objs[i].disposed = 1
            /\ i \notin children
  /\ \E g \in Range(call.frame.detectedMeshes) \ Mapped :
       \E i \in DOMAIN objs : objs[i].xrMesh = g /\ objs[i].disposed = 1

(***************************************************************************)
(* C15.  Missing feed: a tick without a frame, or whose frame has no       *)
(* detectedMeshes, changes nothing, whatever the time: the maps, the       *)
(* children, every DetectedMesh and lastMeshUpdateTime stay as they are,   *)
(* so the mapped meshes stay mapped and attached.                          *)
(***************************************************************************)
C15_MissingFeed ==
  [][(IsTick /\ ~HasFeed)
       => UNCHANGED <<xrMeshToThreeMesh, threeMeshToXrMesh, children, objs,
                      lastMeshUpdateTime>>]_vars

\* A tick without a feed, a full interval after the last reconciliation and
\* with a reference space, has left two meshes mapped and attached.
C15_Witness ==
  /\ call.op = "updateMeshes"
  /\ call.ret = 80
  /\ call.referenceSpace
  /\ lastMeshUpdateTime > 0
  /\ now - lastMeshUpdateTime >= MESH_UPDATE_INTERVAL_MS
  /\ Mapped = XRMeshes
  /\ children = MapValues(xrMeshToThreeMesh)

(***************************************************************************)
(* C17.  Pose unavailable: in a reconciling tick a mapped mesh of the feed *)
(* without a pose keeps the position and the orientation it had, and a     *)
(* mesh created without a pose has the transform of its construction (the  *)
(* origin, no rotation), which it keeps until a tick supplies a pose.      *)
(***************************************************************************)
C17_PoseUnavailable ==
  [][Reconciles =>
       \A h \in TickFeed :
         (~TickFrame.pose[h].ok /\ h \in DOMAIN xrMeshToThreeMesh') =>
           LET after == objs'[xrMeshToThreeMesh'[h]]
           IN IF h \in Mapped
              THEN /\ after.position = objs[xrMeshToThreeMesh[h]].position
                   /\ after.quaternion = objs[xrMeshToThreeMesh[h]].quaternion
              ELSE /\ after.position = Vec(0, 0, 0)
                   /\ after.quaternion = "qIdentity"]_vars

\* A tick without a pose has left a mesh at the place, 1 m behind the
\* default camera's back, and in the orientation an earlier tick gave it.
C17_Witness ==
  /\ Reconciled
  /\ \E h \in Mapped :
       /\ h \in Range(call.frame.detectedMeshes)
       /\ ~call.frame.pose[h].ok
       /\ objs[xrMeshToThreeMesh[h]].position = Vec(0, 0, -1000)
       /\ objs[xrMeshToThreeMesh[h]].quaternion = QuaternionB
       /\ objs[xrMeshToThreeMesh[h]].rapier = 0

(***************************************************************************)
(* C14.  One-time physics registration: over any sequence of ticks and     *)
(* initPhysics calls no DetectedMesh has initRapierPhysics called on it    *)
(* more than once.  initPhysics runs its loop over the mapped meshes on    *)
(* every call, so a second call registers each of them again.              *)
(***************************************************************************)
C14_OneTimePhysicsRegistration == \A i \in DOMAIN objs : objs[i].rapier <= 1

(***************************************************************************)
(* SpecMat: the options with and without showDebugVisualizations, and      *)
(* meshes whose semantic labels are in SEMANTIC_LABELS, outside them,      *)
(* empty or missing.                                                       *)
(***************************************************************************)
InitMat == \E showDebugVisualizations \in BOOLEAN : InitOptions(showDebugVisualizations)

MatLabels ==
  { [m \in XRMeshes |-> IF m = "m1" THEN l1 ELSE l2] :
      l1 \in {"floor", "wall", "table"}, l2 \in {"ceiling", "undefined", ""} }

MatFrames ==
  { [frame EXCEPT !.semanticLabel = labels] :
      frame \in FramesOver({<<>>, <<"m1", "m2">>}, {Unobserved}, {NoViewerPose}),
      labels \in MatLabels }

NextMat == NextOver(MatFrames, {TRUE})

SpecMat == InitMat /\ [][NextMat]_vars

(***************************************************************************)
(* C12.  Material fallback ordering at creation: a DetectedMesh created by *)
(* a tick has the debug material of its semantic label when debug          *)
(* visualizations are enabled and the label is floor, ceiling or wall;     *)
(* the black wireframe fallback when they are enabled and the label is     *)
(* missing, empty or another one; the invisible default material when      *)
(* they are disabled, whatever the label.                                  *)
(***************************************************************************)
DebugEnabled == fallbackDebugMaterial # Null

Wireframe(color) == [color |-> color, wireframe |-> TRUE, visible |-> TRUE]

ExpectedMaterial(label) ==
  IF ~DebugEnabled THEN [color |-> "none", wireframe |-> FALSE, visible |-> FALSE]
  ELSE IF label = "floor" THEN Wireframe("0x00ff00")
  ELSE IF label = "ceiling" THEN Wireframe("0xffff00")
  ELSE IF label = "wall" THEN Wireframe("0x0000ff")
  ELSE Wireframe("0x000000")

CreatedFor(h) ==
  /\ h \in DOMAIN xrMeshToThreeMesh'
  /\ xrMeshToThreeMesh'[h] \notin DOMAIN objs

C12_MaterialFallbackOrdering ==
  [][Reconciles =>
       \A h \in TickFeed :
         CreatedFor(h) =>
           objs'[xrMeshToThreeMesh'[h]].material = ExpectedMaterial(TickFrame.semanticLabel[h])]_vars

\* With debug visualizations, one tick has created a mesh with the material
\* of its label and a mesh without a label with the fallback.
C12_Witness ==
  /\ Reconciled
  /\ DebugEnabled
  /\ Len(objs) = 2
  /\ Mapped = XRMeshes
  /\ call.frame.semanticLabel["m1"] = "wall"
  /\ call.frame.semanticLabel["m2"] = "undefined"
  /\ objs[xrMeshToThreeMesh["m1"]].material = Wireframe("0x0000ff")
  /\ objs[xrMeshToThreeMesh["m2"]].material = Wireframe("0x000000")

(***************************************************************************)
(* SpecCap: the limit of meshes per frame as a parameter of the detector.  *)
(* The code fixes it at MAX_MESHES_PER_FRAME = 100000, which no feed of    *)
(* this size reaches; here it starts at 1..MaxCap, so that feeds of two    *)
(* meshes, in either iteration order, reach it.                            *)
(***************************************************************************)
MaxCap == 2

InitCap == \E limit \in 1..MaxCap : InitWith(FALSE, limit)

CapObservations ==
  {Observation(NearPose, "v1"), Observation(NoPose, "v2"), Observation(FarPose, "v2")}

CapFrames == FramesOver(UNION {Orders(S) : S \in SUBSET XRMeshes}, CapObservations, {NoViewerPose})

NextCap ==
  \/ AdvanceClock
  \/ \E frame \in CapFrames : UpdateMeshes(frame, TRUE)

SpecCap == InitCap /\ [][NextCap]_vars

(***************************************************************************)
(* C16.  Per-tick cap: a reconciling tick creates or updates at most       *)
(* maxMeshesPerFrame meshes.  The loop reaches a mesh of the feed exactly  *)
(* when fewer than maxMeshesPerFrame visible meshes precede it, culled     *)
(* ones not counting: a mesh it reaches is created or updated when         *)
(* visible and culled when not, and a mesh it does not reach is left as    *)
(* it was, mapped or not.  The meshes absent from the feed are removed     *)
(* whether or not the cap is reached.                                      *)
(***************************************************************************)
VisibleBefore(i) ==
  Cardinality({j \in 1..(i - 1) : VisibleIn(TickFrame, TickFrame.detectedMeshes[j])})

ReachedByLoop(i) == VisibleBefore(i) < maxMeshesPerFrame

\* A mesh of the feed that the tick has created, or whose object it changed.
CreatedOrChanged(h) ==
  /\ h \in DOMAIN xrMeshToThreeMesh'
  /\ \/ h \notin Mapped
     \/ xrMeshToThreeMesh'[h] # xrMeshToThreeMesh[h]
     \/ objs'[xrMeshToThreeMesh'[h]] # objs[xrMeshToThreeMesh[h]]

LeftUntouched(h) ==
  /\ h \in DOMAIN xrMeshToThreeMesh' <=> h \in Mapped
  /\ h \in Mapped =>
       /\ xrMeshToThreeMesh'[h] = xrMeshToThreeMesh[h]
       /\ objs'[xrMeshToThreeMesh[h]] = objs[xrMeshToThreeMesh[h]]
       /\ xrMeshToThreeMesh[h] \in children' <=> xrMeshToThreeMesh[h] \in children

CreatedOrUpdated(h) ==
  /\ h \in DOMAIN xrMeshToThreeMesh'
  /\ xrMeshToThreeMesh'[h] \in children'
  /\ objs'[xrMeshToThreeMesh'[h]].vertices = TickFrame.vertices[h]
  /\ IF h \in Mapped
     THEN xrMeshToThreeMesh'[h] = xrMeshToThreeMesh[h]
     ELSE xrMeshToThreeMesh'[h] \notin DOMAIN objs

Culled(h) ==
  /\ h \notin DOMAIN xrMeshToThreeMesh'
  /\ h \in Mapped =>
       /\ objs'[xrMeshToThreeMesh[h]].disposed = 1
       /\ xrMeshToThreeMesh[h] \notin children'

C16_PerTickCap ==
  [][Reconciles =>
       LET meshes == TickFrame.detectedMeshes
       IN /\ Cardinality({h \in TickFeed : CreatedOrChanged(h)}) <= maxMeshesPerFrame
          /\ \A i \in 1..Len(meshes) :
               IF ~ReachedByLoop(i) THEN LeftUntouched(meshes[i])
               ELSE IF VisibleIn(TickFrame, meshes[i]) THEN CreatedOrUpdated(meshes[i])
               ELSE Culled(meshes[i])
          /\ \A h \in Mapped \ TickFeed :
               /\ h \notin DOMAIN xrMeshToThreeMesh'
               /\ objs'[xrMeshToThreeMesh[h]].disposed = 1
               /\ xrMeshToThreeMesh[h] \notin children']_vars

\* With a limit of 1, a tick has updated the first mesh of its feed and left
\* the second one mapped and attached although it is beyond the view
\* distance, and has removed nothing else: the loop stopped before it.
C16_Witness ==
  /\ Reconciled
  /\ maxMeshesPerFrame = 1
  /\ Len(call.frame.detectedMeshes) = 2
  /\ LET first == call.frame.detectedMeshes[1]
         second == call.frame.detectedMeshes[2]
     IN /\ first = "m2"
        /\ first \in Mapped
        /\ objs[xrMeshToThreeMesh[first]].vertices = "v2"
        /\ ~call.frame.pose[first].ok
        /\ objs[xrMeshToThreeMesh[first]].position = NearPose.position
        /\ call.frame.pose[second] = FarPose
        /\ second \in Mapped
        /\ xrMeshToThreeMesh[second] \in children
        /\ objs[xrMeshToThreeMesh[second]].vertices = "v1"

(***************************************************************************)
(* HandsInteraction: the event handlers.                                   *)
(***************************************************************************)
MaxHandPosition == 1

MaxTargetPosition == 2

\* xb.Handedness, and a handIndex that is neither hand.
Handedness == [LEFT |-> "LEFT", RIGHT |-> "RIGHT"]

HandIndices == {Handedness.LEFT, Handedness.RIGHT, "NONE"}

\* event.hand.matrixWorld of a grab event.
HandPositions == 0..MaxHandPosition

\* event.detail.hand and event.detail.name of a gesture event.
GestureHands == {"left", "right"}

GestureNames == {"pinch", "fist", "wave"}

Event(type, handIndex, hand, name) ==
  [type |-> type, handIndex |-> handIndex, hand |-> hand, name |-> name]

\* Map.prototype.set: the value of a key that is present changes in place, a
\* new key goes to the end.
OrderedMapSet(entries, key, value) ==
  IF \E i \in 1..Len(entries) : entries[i][1] = key
  THEN [i \in 1..Len(entries) |->
          IF entries[i][1] = key THEN <<key, value>> ELSE entries[i]]
  ELSE Append(entries, <<key, value>>)

\* Map.prototype.delete
OrderedMapDelete(entries, key) ==
  LET Other(e) == e[1] # key IN SelectSeq(entries, Other)

\* Lines 64-77: _updateGestureHighlight
updateGestureHighlight(material, gestures) ==
  IF ~material.isMeshPhongMaterial THEN material
  ELSE IF Len(gestures) = 0
  THEN [material EXCEPT !.emissive = "0x000000", !.emissiveIntensity = 0]
  ELSE LET gesture == gestures[Len(gestures)][2]
           color == IF gesture \in DOMAIN gesturePalette
                    THEN gesturePalette[gesture]
                    ELSE "0xffffff"
       IN [material EXCEPT !.emissive = color, !.emissiveIntensity = 6]

\* Lines 51-62 with the test of the left hand first: both hands give green.
updateColorLeftFirst(material, left, right, gestures) ==
  updateGestureHighlight(
    [material EXCEPT !.color = IF left THEN "0x34A853"
                               ELSE IF left /\ right THEN "0xDB4437"
                               ELSE IF right THEN "0x4285F4"
                               ELSE originalColor],
    gestures)

\* Lines 51-62: _updateColor
updateColor(material, left, right, gestures) ==
  updateGestureHighlight(
    [material EXCEPT !.color = IF left /\ right THEN "0xDB4437"
                               ELSE IF left THEN "0x34A853"
                               ELSE IF right THEN "0x4285F4"
                               ELSE originalColor],
    gestures)

\* Lines 79-89.
onObjectTouchStart(handIndex) ==
  LET left == IF handIndex = Handedness.LEFT THEN TRUE ELSE leftHandTouching
      right == IF handIndex # Handedness.LEFT /\ handIndex = Handedness.RIGHT
               THEN TRUE ELSE rightHandTouching
  IN /\ leftHandTouching' = left
     /\ rightHandTouching' = right
     /\ target' = [target EXCEPT !.material = updateColor(@, left, right, activeGestures)]
     /\ event' = Event("touchstart", handIndex, 0, "")
     /\ UNCHANGED <<isGrabbing, handToObject, activeGestures, gestureStarts>>
     /\ UNCHANGED <<detectorVars, ballPitVars>>

\* Lines 91-101.
onObjectTouchEnd(handIndex) ==
  LET left == IF handIndex = Handedness.LEFT THEN FALSE ELSE leftHandTouching
      right == IF handIndex # Handedness.LEFT /\ handIndex = Handedness.RIGHT
               THEN FALSE ELSE rightHandTouching
  IN /\ leftHandTouching' = left
     /\ rightHandTouching' = right
     /\ target' = [target EXCEPT !.material = updateColor(@, left, right, activeGestures)]
     /\ event' = Event("touchend", handIndex, 0, "")
     /\ UNCHANGED <<isGrabbing, handToObject, activeGestures, gestureStarts>>
     /\ UNCHANGED <<detectorVars, ballPitVars>>

\* Lines 103-118 without the return of line 104.
onObjectGrabStartUnguarded(handIndex, hand) ==
  /\ isGrabbing' = TRUE
  /\ handToObject' = InvertMultiply(Translation(hand), Translation(target.position))
  /\ event' = Event("grabstart", handIndex, hand, "")
  /\ UNCHANGED <<leftHandTouching, rightHandTouching, target, activeGestures, gestureStarts>>
  /\ UNCHANGED <<detectorVars, ballPitVars>>

\* Lines 103-118.  hand: event.hand.matrixWorld
onObjectGrabStart(handIndex, hand) ==
  /\ event' = Event("grabstart", handIndex, hand, "")
  /\ UNCHANGED <<leftHandTouching, rightHandTouching, target, activeGestures, gestureStarts>>
  /\ UNCHANGED <<detectorVars, ballPitVars>>
  /\ IF isGrabbing
     THEN UNCHANGED <<isGrabbing, handToObject>>
     ELSE /\ isGrabbing' = TRUE
          /\ handToObject' = InvertMultiply(Translation(hand), Translation(target.position))

\* Lines 120-142.
onObjectGrabbing(handIndex, hand) ==
  /\ event' = Event("grabbing", handIndex, hand, "")
  /\ UNCHANGED <<leftHandTouching, rightHandTouching, isGrabbing, handToObject,
                 activeGestures, gestureStarts>>
  /\ UNCHANGED <<detectorVars, ballPitVars>>
  /\ IF ~isGrabbing \/ handToObject = Null
     THEN UNCHANGED target
     ELSE LET O == multiplyMatrices(Translation(hand), handToObject)
              parentInv == Translation(0)
              Olocal == multiplyMatrices(parentInv, O)
          IN /\ Olocal.translation \in -MaxTargetPosition..MaxTargetPosition
             /\ target' = [target EXCEPT !.position = Olocal.translation]

\* Lines 144-151.
onObjectGrabEnd(handIndex) ==
  /\ event' = Event("grabend", handIndex, 0, "")
  /\ UNCHANGED <<leftHandTouching, rightHandTouching, target, activeGestures, gestureStarts>>
  /\ UNCHANGED <<detectorVars, ballPitVars>>
  /\ IF ~isGrabbing
     THEN UNCHANGED <<isGrabbing, handToObject>>
     ELSE /\ isGrabbing' = FALSE
          /\ handToObject' = Null

\* Lines 153-159.
handleGestureStart(hand, name) ==
  LET gestures == OrderedMapSet(activeGestures, hand, name)
  IN /\ activeGestures' = gestures
     /\ target' = [target EXCEPT !.material = updateGestureHighlight(@, gestures)]
     /\ gestureStarts' = Append(OrderedMapDelete(gestureStarts, hand), <<hand, name>>)
     /\ event' = Event("gesturestart", hand, 0, name)
     /\ UNCHANGED <<leftHandTouching, rightHandTouching, isGrabbing, handToObject>>
     /\ UNCHANGED <<detectorVars, ballPitVars>>

\* Lines 161-166.
handleGestureUpdate(hand, name) ==
  /\ event' = Event("gestureupdate", hand, 0, name)
  /\ UNCHANGED <<leftHandTouching, rightHandTouching, isGrabbing, handToObject, target,
                 activeGestures, gestureStarts>>
  /\ UNCHANGED <<detectorVars, ballPitVars>>

\* Lines 168-173.
handleGestureEnd(hand, name) ==
  LET gestures == OrderedMapDelete(activeGestures, hand)
  IN /\ activeGestures' = gestures
     /\ target' = [target EXCEPT !.material = updateGestureHighlight(@, gestures)]
     /\ gestureStarts' = OrderedMapDelete(gestureStarts, hand)
     /\ event' = Event("gestureend", hand, 0, name)
     /\ UNCHANGED <<leftHandTouching, rightHandTouching, isGrabbing, handToObject>>
     /\ UNCHANGED <<detectorVars, ballPitVars>>

(***************************************************************************)
(* SpecHands: touch, grab and gesture events of both hands in any order.   *)
(***************************************************************************)
NextHands ==
  \/ \E handIndex \in HandIndices : onObjectTouchStart(handIndex)
  \/ \E handIndex \in HandIndices : onObjectTouchEnd(handIndex)
  \/ \E handIndex \in HandIndices, hand \in HandPositions : onObjectGrabStart(handIndex, hand)
  \/ \E handIndex \in HandIndices, hand \in HandPositions : onObjectGrabbing(handIndex, hand)
  \/ \E handIndex \in HandIndices : onObjectGrabEnd(handIndex)
  \/ \E hand \in GestureHands, name \in GestureNames : handleGestureStart(hand, name)
  \/ \E hand \in GestureHands, name \in GestureNames : handleGestureUpdate(hand, name)
  \/ \E hand \in GestureHands, name \in GestureNames : handleGestureEnd(hand, name)

SpecHands == Init /\ [][NextHands]_vars

\* The fields of the HandsInteraction other than the histories.
HandsState ==
  <<leftHandTouching, rightHandTouching, isGrabbing, handToObject, target, activeGestures>>

(***************************************************************************)
(* C18.  Grab state machine: after every event isGrabbing holds exactly    *)
(* when _handToObject is not null; a grab start while a grab is active     *)
(* leaves the stored offset, and everything else, unchanged; grabbing and  *)
(* grab end events while no grab is active change nothing.                 *)
(***************************************************************************)
C18_GrabStateMachine ==
  [][/\ isGrabbing' <=> handToObject' # [null |-> TRUE]
     /\ (event'.type = "grabstart" /\ isGrabbing)
          => (handToObject' = handToObject /\ UNCHANGED HandsState)
     /\ (event'.type \in {"grabbing", "grabend"} /\ ~isGrabbing)
          => UNCHANGED HandsState]_vars

\* A grab start of a hand elsewhere than the one holding the target, which
\* the grab has moved, has left the offset of the first grab start.
C18_Witness ==
  /\ event.type = "grabstart"
  /\ isGrabbing
  /\ target.position # 0
  /\ handToObject # [null |-> TRUE]
  /\ handToObject.translation # target.position - event.hand

(***************************************************************************)
(* C19.  Touch colour: a touch start of the left (right) hand sets that    *)
(* hand's flag and a touch end clears it, leaving the other hand's flag;   *)
(* an event of neither hand, and every event that is not a touch event,    *)
(* leaves both flags; and after every event the colour of the target is    *)
(* red 0xDB4437 when both flags are set, green 0x34A853 when only the      *)
(* left one is, blue 0x4285F4 when only the right one is, and the          *)
(* original yellow 0xFBBC05 when none is.                                  *)
(***************************************************************************)
TouchColour(left, right) ==
  IF left /\ right THEN "0xDB4437"
  ELSE IF left THEN "0x34A853"
  ELSE IF right THEN "0x4285F4"
  ELSE "0xFBBC05"

C19_TouchColour ==
  [][/\ leftHandTouching' =
          IF event'.type \in {"touchstart", "touchend"} /\ event'.handIndex = "LEFT"
          THEN event'.type = "touchstart"
          ELSE leftHandTouching
     /\ rightHandTouching' =
          IF event'.type \in {"touchstart", "touchend"} /\ event'.handIndex = "RIGHT"
          THEN event'.type = "touchstart"
          ELSE rightHandTouching
     /\ target'.material.color = TouchColour(leftHandTouching', rightHandTouching')]_vars

\* A touch end of neither hand has left both flags set and the target red.
C19_Witness ==
  /\ event.type = "touchend"
  /\ event.handIndex = "NONE"
  /\ leftHandTouching
  /\ rightHandTouching
  /\ target.material.color = "0xDB4437"

(***************************************************************************)
(* C20.  Gesture highlight: activeGestures holds at most one gesture per   *)
(* hand; a gestureupdate does not change it; after a gesturestart or a     *)
(* gestureend the emissive highlight is off (intensity 0, black) exactly   *)
(* when activeGestures is empty, and otherwise it has intensity 0.6 and    *)
(* the palette colour of the gesture started last among the active ones,   *)
(* white when the palette does not have it.  A gesturestart of a hand that *)
(* already has an entry keeps the entry's place in the Map, and the        *)
(* highlight then shows the gesture of the other hand.                     *)
(***************************************************************************)
PaletteColour(name) ==
  CASE name = "pinch" -> "0xff6f00"
    [] name = "open-palm" -> "0x00acc1"
    [] name = "fist" -> "0x4e342e"
    [] name = "thumbs-up" -> "0x8bc34a"
    [] name = "point" -> "0x673ab7"
    [] name = "spread" -> "0xff4081"
    [] OTHER -> "0xffffff"

C20_GestureHighlight ==
  [][/\ \A i, j \in 1..Len(activeGestures') :
          activeGestures'[i][1] = activeGestures'[j][1] => i = j
     /\ event'.type = "gestureupdate" => activeGestures' = activeGestures
     /\ event'.type \in {"gesturestart", "gestureend"} =>
          LET material == target'.material
          IN /\ (material.emissiveIntensity = 0 /\ material.emissive = "0x000000")
                  <=> activeGestures' = <<>>
             /\ activeGestures' # <<>> =>
                  /\ material.emissiveIntensity = 6
                  /\ material.emissive =
                       PaletteColour(gestureStarts'[Len(gestureStarts')][2])]_vars

(***************************************************************************)
(* BallPit: update and controllerUpdate.                                   *)
(***************************************************************************)
MaxPitTime == 250

\* xb.core.input.controllers
Controllers == <<"c1", "c2">>

\* How far performance.now() moves between two calls: one frame at 60 Hz
\* (16 2/3 ms), and a third of a millisecond less than the interval.
PitClockSteps == {50, 99}

\* Lines 140-162 with one timestamp for all controllers: a spawn records its
\* time for every controller that has an entry.
controllerUpdateSharedTime(pit, controller, selected, time) ==
  LET last == IF controller \in DOMAIN pit.last
              THEN pit.last
              ELSE MapSet(pit.last, controller, Ms(-99))
  IN IF selected /\ time - last[controller] >= Ms(1000) \div kBallsPerSecond
     THEN [last |-> [c \in DOMAIN last |-> time],
           spawned |-> pit.spawned \cup {controller}]
     ELSE [last |-> last, spawned |-> pit.spawned]

\* Lines 140-162.  pit: the Map and the controllers spawnBallAt was called
\* for; selected: controller.userData.selected; time: performance.now().
controllerUpdate(pit, controller, selected, time) ==
  LET last == IF controller \in DOMAIN pit.last
              THEN pit.last
              ELSE MapSet(pit.last, controller, Ms(-99))
  IN IF selected /\ time - last[controller] >= Ms(1000) \div kBallsPerSecond
     THEN [last |-> MapSet(last, controller, time),
           spawned |-> pit.spawned \cup {controller}]
     ELSE [last |-> last, spawned |-> pit.spawned]

\* Lines 73-75: the loop of update over the controllers.
RECURSIVE updateControllers(_, _, _, _)
updateControllers(pit, i, selected, time) ==
  IF i > Len(Controllers) THEN pit
  ELSE updateControllers(controllerUpdate(pit, Controllers[i], selected[Controllers[i]], time),
                         i + 1, selected, time)

\* What a call that ends as result leaves on the BallPit.
PitReturns(op, selected, result) ==
  /\ lastBallCreatedTimeForController' = result.last
  /\ lastSpawnAt' = [c \in DOMAIN lastSpawnAt \cup result.spawned |->
                       IF c \in result.spawned THEN performanceNow ELSE lastSpawnAt[c]]
  /\ pitCall' = PitCalled(op, selected, result.spawned)
  /\ UNCHANGED performanceNow
  /\ UNCHANGED <<detectorVars, handsVars>>

\* Time passes between two calls.
PitAdvanceClock(step) ==
  /\ performanceNow + step <= MaxPitTime
  /\ performanceNow' = performanceNow + step
  /\ pitCall' = PitCalled("clock", EmptyMap, {})
  /\ UNCHANGED <<lastBallCreatedTimeForController, lastSpawnAt>>
  /\ UNCHANGED <<detectorVars, handsVars>>

\* One call of controllerUpdate.
ControllerUpdate(controller, selected) ==
  PitReturns("controllerUpdate", [c \in {controller} |-> selected],
             controllerUpdate([last |-> lastBallCreatedTimeForController, spawned |-> {}],
                              controller, selected, performanceNow))

\* Lines 50-76: update, of which the loop of lines 73-75 acts on the Map.
Update(selected) ==
  PitReturns("update", selected,
             updateControllers([last |-> lastBallCreatedTimeForController, spawned |-> {}],
                               1, selected, performanceNow))

(***************************************************************************)
(* SpecPit: two controllers, selected or not, updated one at a time or     *)
(* together, at times 50 or 99 thirds of a millisecond apart.              *)
(***************************************************************************)
NextPit ==
  \/ \E step \in PitClockSteps : PitAdvanceClock(step)
  \/ \E controller \in Range(Controllers), selected \in BOOLEAN :
       ControllerUpdate(controller, selected)
  \/ \E selected \in [Range(Controllers) -> BOOLEAN] : Update(selected)

SpecPit == Init /\ [][NextPit]_vars

(***************************************************************************)
(* C21.  Per-controller spawn throttle: in every call of controllerUpdate, *)
(* alone or from update, a ball is spawned for a controller only when it   *)
(* is selected and at least 1000 / 30 ms after the last ball spawned for   *)
(* the same controller; the time recorded for a controller (none before    *)
(* its first spawn, when it has no entry or the initial -99) changes only  *)
(* when that controller spawns, and is then the time of the call; and a    *)
(* selected controller whose own last spawn is at least 1000 / 30 ms back, *)
(* or that has not spawned, spawns whatever the other controller did.      *)
(***************************************************************************)
PitCalls == pitCall'.op \in {"controllerUpdate", "update"}

\* The last-spawn time recorded for a controller, if there is one.
RecordedSpawn(map, c) == IF c \in DOMAIN map /\ map[c] >= 0 THEN <<map[c]>> ELSE <<>>

\* In thirds of a millisecond: 1000 / 30 ms are 100 of them.
SinceLastSpawn(c) == performanceNow - lastSpawnAt[c]

C21_SpawnThrottle ==
  [][/\ PitCalls =>
          /\ \A c \in pitCall'.spawned :
               /\ c \in DOMAIN pitCall'.selected
               /\ pitCall'.selected[c]
               /\ c \in DOMAIN lastSpawnAt => SinceLastSpawn(c) >= 100
          /\ \A c \in DOMAIN pitCall'.selected :
               (/\ pitCall'.selected[c]
                /\ c \in DOMAIN lastSpawnAt => SinceLastSpawn(c) >= 100)
                 => c \in pitCall'.spawned
     /\ \A c \in Range(Controllers) :
          IF PitCalls /\ c \in pitCall'.spawned
          THEN RecordedSpawn(lastBallCreatedTimeForController', c) = <<performanceNow>>
          ELSE RecordedSpawn(lastBallCreatedTimeForController', c)
                 = RecordedSpawn(lastBallCreatedTimeForController, c)]_vars

\* One update with both controllers selected has spawned a ball for c2 and
\* none for c1, whose last ball is a third of a millisecond less than
\* 1000 / 30 ms old.
C21_Witness ==
  /\ pitCall.op = "update"
  /\ pitCall.selected["c1"] /\ pitCall.selected["c2"]
  /\ pitCall.spawned = {"c2"}
  /\ performanceNow = 199
  /\ lastBallCreatedTimeForController["c1"] = 100
  /\ lastBallCreatedTimeForController["c2"] = 199

====
